---- MODULE Spec2Model ----
(***************************************************************************)
(* HousePower MiniBMS cell module firmware (src/src/main.cpp), normal      *)
(* mode (CALIBRATION_MODE and DEBUG undefined).  One step of the model is  *)
(* one pass of loop(): sample, filter, classify, drive the outputs.        *)
(***************************************************************************)
EXTENDS Integers, Sequences, FiniteSets, TLC

\* ---------------------------------------------------------------- constants
c_LVoltage_engage == 2900
c_LVoltage_disengage == 2950
c_HVoltage_engage == 3600
c_HVoltage_disengage == 3550
c_ShuntVoltage_engage == 3500
c_ShuntVoltage_disengage == 3450
c_MovingAverageWindow == 5
c_StateSettleTime == 3
c_RecentCutOffDuration == 30 * 60
c_NoCutoffEvent == 65535
\* unsigned int on the AVR target is 16 bits wide
UIntModulus == 65536
\* value every filter slot and cellvoltage start with
NominalVoltage == 3200

e_CellInvalid == 0
e_CellNorm == 1
e_CellLVC == 2
e_CellHVC == 3

\* the watchdog timeouts loop() asks deep_sleep() for; "none" when a pass
\* of loop() does not call deep_sleep()
WD_TIMEOUT_1000ms == "1000ms"
NoSleep == "none"

\* ---------------------------------------------------------------- bounds
\* number of passes of loop() explored under Spec, SpecLV, SpecHV and
\* SpecRecovery
MaxTicks == 16
MaxTicksLV == 15
MaxTicksHV == 17
MaxTicksRecovery == 1820
\* passes of SpecRecovery with a free choice of reading
FreeTicks == 11
\* saturation of the run-length observers
RunCap == 8
\* number of passes in a run of SpecLVExit, and how many of them at the
\* beginning are fed the deeply discharged reading
MaxTicksLVExit == 18
LowTicks == 10
\* SpecPair: the greatest number of passes the second run is ahead, the
\* number of passes that bring the first run level, and the number of
\* passes of the first run in all
MaxLead == 1805
WarmTicks == 6
MaxTicksPair == 17
\* number of passes in a run of SpecFilter
MaxTicksFilter == 8

VARIABLES
  avg_buffer,             \* long avg_buffer[c_MovingAverageWindow], indexed 0..4
  avg_index,              \* byte avg_index
  cellvoltage,            \* long cellvoltage (filtered)
  cellstate,              \* byte cellstate (committed)
  cellstate_pending,
  cellstate_pending_age,
  shunting,               \* bool shunting (committed)
  shunting_pending,
  shunting_pending_age,
  last_cutoff_age,
  PORTB,                  \* output pins after the pass: [led, loop, shunt]
  port_sampled,           \* output pins at the moment readVcc() ran
  shunt_pulsed,           \* SHUNT_ON was executed in the last pass
  sleep_request,          \* argument of deep_sleep() in the last pass, or NoSleep
  invert_led,             \* loop()'s local invert_led at the end of the last pass
  tick,                   \* number of passes of loop() so far
  obs,                    \* observers of the input history (see Observe)
  twin                    \* a second run of the program (see loop_of)

vars == <<avg_buffer, avg_index, cellvoltage, cellstate, cellstate_pending,
          cellstate_pending_age, shunting, shunting_pending,
          shunting_pending_age, last_cutoff_age, PORTB, port_sampled,
          shunt_pulsed, sleep_request, invert_led, tick, obs, twin>>

\* ---------------------------------------------------------------- output pins
\* PORTB bits: a bit that is set is TRUE.  PIN_LOOP set = loop closed.
LED_ON(p) == [p EXCEPT !.led = TRUE]
LED_OFF(p) == [p EXCEPT !.led = FALSE]
SHUNT_ON(p) == [p EXCEPT !.shunt = TRUE]
SHUNT_OFF(p) == [p EXCEPT !.shunt = FALSE]
LOOP_CLOSE(p) == [p EXCEPT !.loop = TRUE]
LOOP_OPEN(p) == [p EXCEPT !.loop = FALSE]

PinOp(p, op) ==
  CASE op = "LED_ON" -> LED_ON(p)
    [] op = "LED_OFF" -> LED_OFF(p)
    [] op = "SHUNT_ON" -> SHUNT_ON(p)
    [] op = "SHUNT_OFF" -> SHUNT_OFF(p)
    [] op = "LOOP_CLOSE" -> LOOP_CLOSE(p)
    [] op = "LOOP_OPEN" -> LOOP_OPEN(p)

\* the pins after executing the macros of ops in order
RECURSIVE RunOps(_, _)
RunOps(p, ops) ==
  IF ops = <<>> THEN p ELSE RunOps(PinOp(p, Head(ops)), Tail(ops))

\* ops repeated n times (the blink loops)
RECURSIVE Repeat(_, _)
Repeat(ops, n) == IF n = 0 THEN <<>> ELSE ops \o Repeat(ops, n - 1)

\* ---------------------------------------------------------------- filter
\* avg_buffer[avg_index++] = val
moving_average_store(buf, idx, val) == [buf EXCEPT ![idx] = val]

\* mutant: the cursor wraps one slot early, the last slot is never written
moving_average_index_short(idx) ==
  ((idx + 1) % 256) % (c_MovingAverageWindow - 1)

\* mutant: the cursor is never advanced
moving_average_index_stuck(idx) == idx

\* avg_index = avg_index % c_MovingAverageWindow, after the byte increment
moving_average_index(idx) == ((idx + 1) % 256) % c_MovingAverageWindow

RECURSIVE SumSlots(_, _)
SumSlots(buf, n) == IF n = 0 THEN 0 ELSE buf[n - 1] + SumSlots(buf, n - 1)

\* mutant: the mean is rounded to the nearest integer
moving_average_mean_rounded(buf) ==
  (SumSlots(buf, c_MovingAverageWindow) + c_MovingAverageWindow \div 2)
    \div c_MovingAverageWindow

\* sum / c_MovingAverageWindow (readings are positive: \div truncates alike)
moving_average_mean(buf) ==
  SumSlots(buf, c_MovingAverageWindow) \div c_MovingAverageWindow

\* ---------------------------------------------------------------- classification
\* mutant: shunting starts at the HV engage threshold instead of its own
shunting_new_wrong_threshold(sh, v) ==
  LET start == IF ~sh /\ v > c_HVoltage_engage THEN TRUE ELSE sh
  IN IF sh /\ v < c_ShuntVoltage_disengage THEN FALSE ELSE start

\* mutant: the two shunting thresholds are swapped
shunting_new_swapped_thresholds(sh, v) ==
  LET start == IF ~sh /\ v > c_ShuntVoltage_disengage THEN TRUE ELSE sh
  IN IF sh /\ v < c_ShuntVoltage_engage THEN FALSE ELSE start

\* determine_cellstate(): the proposal for the shunting flag
shunting_new(sh, v) ==
  LET start == IF ~sh /\ v > c_ShuntVoltage_engage THEN TRUE ELSE sh
  IN IF sh /\ v < c_ShuntVoltage_disengage THEN FALSE ELSE start

\* mutant: e_CellHVC is left at HV disengage already (<= for <)
cellstate_new_exit_at_disengage(cs, v) ==
  LET fromHVC == IF cs = e_CellHVC /\ v <= c_HVoltage_disengage
                 THEN e_CellNorm ELSE cs
      fromLVC == IF cs = e_CellLVC /\ v > c_LVoltage_disengage
                 THEN e_CellNorm ELSE fromHVC
      fromInvalid == IF cs = e_CellInvalid /\ v > c_LVoltage_engage
                        /\ v < c_HVoltage_engage
                     THEN e_CellNorm ELSE fromLVC
      band == IF v > c_LVoltage_disengage /\ v < c_HVoltage_disengage
              THEN e_CellNorm ELSE fromInvalid
      high == IF v >= c_HVoltage_engage THEN e_CellHVC ELSE band
  IN IF v <= c_LVoltage_engage THEN e_CellLVC ELSE high

\* mutant: e_CellLVC is left at LV disengage already (>= for >)
cellstate_new_lv_exit_at_disengage(cs, v) ==
  LET fromHVC == IF cs = e_CellHVC /\ v < c_HVoltage_disengage
                 THEN e_CellNorm ELSE cs
      fromLVC == IF cs = e_CellLVC /\ v >= c_LVoltage_disengage
                 THEN e_CellNorm ELSE fromHVC
      fromInvalid == IF cs = e_CellInvalid /\ v > c_LVoltage_engage
                        /\ v < c_HVoltage_engage
                     THEN e_CellNorm ELSE fromLVC
      band == IF v > c_LVoltage_disengage /\ v < c_HVoltage_disengage
              THEN e_CellNorm ELSE fromInvalid
      high == IF v >= c_HVoltage_engage THEN e_CellHVC ELSE band
  IN IF v <= c_LVoltage_engage THEN e_CellLVC ELSE high

\* mutant: HV engage is tested with > instead of >=
cellstate_new_engage_strict(cs, v) ==
  LET fromHVC == IF cs = e_CellHVC /\ v < c_HVoltage_disengage
                 THEN e_CellNorm ELSE cs
      fromLVC == IF cs = e_CellLVC /\ v > c_LVoltage_disengage
                 THEN e_CellNorm ELSE fromHVC
      fromInvalid == IF cs = e_CellInvalid /\ v > c_LVoltage_engage
                        /\ v < c_HVoltage_engage
                     THEN e_CellNorm ELSE fromLVC
      band == IF v > c_LVoltage_disengage /\ v < c_HVoltage_disengage
              THEN e_CellNorm ELSE fromInvalid
      high == IF v > c_HVoltage_engage THEN e_CellHVC ELSE band
  IN IF v <= c_LVoltage_engage THEN e_CellLVC ELSE high

\* determine_cellstate(): the proposal for the cell state; each later IF
\* overrides the earlier ones, as the assignments in the source do
cellstate_new(cs, v) ==
  LET fromHVC == IF cs = e_CellHVC /\ v < c_HVoltage_disengage
                 THEN e_CellNorm ELSE cs
      fromLVC == IF cs = e_CellLVC /\ v > c_LVoltage_disengage
                 THEN e_CellNorm ELSE fromHVC
      fromInvalid == IF cs = e_CellInvalid /\ v > c_LVoltage_engage
                        /\ v < c_HVoltage_engage
                     THEN e_CellNorm ELSE fromLVC
      band == IF v > c_LVoltage_disengage /\ v < c_HVoltage_disengage
              THEN e_CellNorm ELSE fromInvalid
      high == IF v >= c_HVoltage_engage THEN e_CellHVC ELSE band
  IN IF v <= c_LVoltage_engage THEN e_CellLVC ELSE high

\* mutant: the shunting flag settles one pass later than the cell state
shunting_settled_late(age) == age > c_StateSettleTime + 1

\* the test that lets a pending shunting value be committed
shunting_settled(age) == age > c_StateSettleTime

\* mutant: the cell state settles one pass later
cellstate_settled_late(age) == age > c_StateSettleTime + 1

\* the test that lets a pending cell state be committed
cellstate_settled(age) == age > c_StateSettleTime

\* mutant: a changed proposal replaces the pending shunting value but
\* keeps its age
shunting_debounce_no_reset(sh, pend, age, new) ==
  IF pend # new
  THEN [cur |-> sh, pend |-> new, age |-> age]
  ELSE IF shunting_settled(age)
       THEN [cur |-> new, pend |-> pend, age |-> age]
       ELSE [cur |-> sh, pend |-> pend, age |-> (age + 1) % UIntModulus]

\* determine_cellstate(): debounce of the shunting flag
shunting_debounce(sh, pend, age, new) ==
  IF pend # new
  THEN [cur |-> sh, pend |-> new, age |-> 0]
  ELSE IF shunting_settled(age)
       THEN [cur |-> new, pend |-> pend, age |-> age]
       ELSE [cur |-> sh, pend |-> pend, age |-> (age + 1) % UIntModulus]

\* mutant: the proposal is compared with the committed state instead of
\* the pending one
cellstate_debounce_vs_committed(cs, pend, age, new) ==
  IF new = e_CellInvalid
  THEN [cur |-> cs, pend |-> pend, age |-> age]
  ELSE IF cs # new
       THEN [cur |-> cs, pend |-> new, age |-> 0]
       ELSE IF cellstate_settled(age)
            THEN [cur |-> new, pend |-> pend, age |-> age]
            ELSE [cur |-> cs, pend |-> pend, age |-> (age + 1) % UIntModulus]

\* mutant: a changed proposal replaces the pending state but keeps its age
cellstate_debounce_no_reset(cs, pend, age, new) ==
  IF new = e_CellInvalid
  THEN [cur |-> cs, pend |-> pend, age |-> age]
  ELSE IF pend # new
       THEN [cur |-> cs, pend |-> new, age |-> age]
       ELSE IF cellstate_settled(age)
            THEN [cur |-> new, pend |-> pend, age |-> age]
            ELSE [cur |-> cs, pend |-> pend, age |-> (age + 1) % UIntModulus]

\* mutant: the age keeps counting on the pass that commits
cellstate_debounce_keeps_counting(cs, pend, age, new) ==
  IF new = e_CellInvalid
  THEN [cur |-> cs, pend |-> pend, age |-> age]
  ELSE IF pend # new
       THEN [cur |-> cs, pend |-> new, age |-> 0]
       ELSE IF cellstate_settled(age)
            THEN [cur |-> new, pend |-> pend,
                  age |-> (age + 1) % UIntModulus]
            ELSE [cur |-> cs, pend |-> pend, age |-> (age + 1) % UIntModulus]

\* determine_cellstate(): debounce of the cell state, after the early
\* return on a proposal of e_CellInvalid
cellstate_debounce(cs, pend, age, new) ==
  IF new = e_CellInvalid
  THEN [cur |-> cs, pend |-> pend, age |-> age]
  ELSE IF pend # new
       THEN [cur |-> cs, pend |-> new, age |-> 0]
       ELSE IF cellstate_settled(age)
            THEN [cur |-> new, pend |-> pend, age |-> age]
            ELSE [cur |-> cs, pend |-> pend, age |-> (age + 1) % UIntModulus]

\* ---------------------------------------------------------------- scheduler
\* if (last_cutoff_age != c_NoCutoffEvent) last_cutoff_age++
cutoff_age_step(age) ==
  IF age # c_NoCutoffEvent THEN (age + 1) % UIntModulus ELSE age

\* LED_OFF; SHUNT_OFF before the measurement
pre_sample_ops == <<"LED_OFF", "SHUNT_OFF">>

\* case e_CellLVC
case_LVC(age) ==
  [ops |-> <<"LOOP_OPEN", "LED_OFF", "SHUNT_OFF">>,
   age |-> 0, sleep |-> WD_TIMEOUT_1000ms, invert |-> FALSE]

\* mutant: the shunting branch forgets SHUNT_OFF
case_Norm_shunt_left_on(sh, age) ==
  LET inv == age < c_RecentCutOffDuration
      age2 == IF inv THEN age ELSE c_NoCutoffEvent
  IN IF ~sh
     THEN [ops |-> <<"LOOP_CLOSE", "SHUNT_OFF">>
                   \o (IF ~inv THEN <<"LED_ON">> ELSE <<"LED_OFF">>)
                   \o (IF ~inv THEN <<"LED_OFF">> ELSE <<"LED_ON">>),
           age |-> age2, sleep |-> WD_TIMEOUT_1000ms, invert |-> inv]
     ELSE [ops |-> <<"LOOP_CLOSE", "SHUNT_ON", "LED_OFF", "LED_ON",
                     "LED_OFF">>,
           age |-> age2, sleep |-> NoSleep, invert |-> inv]

\* mutant: the recent-cutoff test is <= instead of <
case_Norm_recent_le(sh, age) ==
  LET inv == age <= c_RecentCutOffDuration
      age2 == IF inv THEN age ELSE c_NoCutoffEvent
  IN IF ~sh
     THEN [ops |-> <<"LOOP_CLOSE", "SHUNT_OFF">>
                   \o (IF ~inv THEN <<"LED_ON">> ELSE <<"LED_OFF">>)
                   \o (IF ~inv THEN <<"LED_OFF">> ELSE <<"LED_ON">>),
           age |-> age2, sleep |-> WD_TIMEOUT_1000ms, invert |-> inv]
     ELSE [ops |-> <<"LOOP_CLOSE", "SHUNT_ON", "LED_OFF", "LED_ON",
                     "SHUNT_OFF", "LED_OFF">>,
           age |-> age2, sleep |-> NoSleep, invert |-> inv]

\* mutant: the loop is held open while a cutoff is recent
case_Norm_recent_opens_loop(sh, age) ==
  LET inv == age < c_RecentCutOffDuration
      age2 == IF inv THEN age ELSE c_NoCutoffEvent
      lp == IF inv THEN "LOOP_OPEN" ELSE "LOOP_CLOSE"
  IN IF ~sh
     THEN [ops |-> <<lp, "SHUNT_OFF">>
                   \o (IF ~inv THEN <<"LED_ON">> ELSE <<"LED_OFF">>)
                   \o (IF ~inv THEN <<"LED_OFF">> ELSE <<"LED_ON">>),
           age |-> age2, sleep |-> WD_TIMEOUT_1000ms, invert |-> inv]
     ELSE [ops |-> <<lp, "SHUNT_ON", "LED_OFF", "LED_ON",
                     "SHUNT_OFF", "LED_OFF">>,
           age |-> age2, sleep |-> NoSleep, invert |-> inv]

\* case e_CellNorm
case_Norm(sh, age) ==
  LET inv == age < c_RecentCutOffDuration
      age2 == IF inv THEN age ELSE c_NoCutoffEvent
  IN IF ~sh
     THEN [ops |-> <<"LOOP_CLOSE", "SHUNT_OFF">>
                   \o (IF ~inv THEN <<"LED_ON">> ELSE <<"LED_OFF">>)
                   \o (IF ~inv THEN <<"LED_OFF">> ELSE <<"LED_ON">>),
           age |-> age2, sleep |-> WD_TIMEOUT_1000ms, invert |-> inv]
     ELSE [ops |-> <<"LOOP_CLOSE", "SHUNT_ON", "LED_OFF", "LED_ON",
                     "SHUNT_OFF", "LED_OFF">>,
           age |-> age2, sleep |-> NoSleep, invert |-> inv]

\* mutant: the HVC branch closes the loop instead of opening it
case_HVC_loop_closed(age) ==
  [ops |-> <<"LOOP_CLOSE", "SHUNT_ON">>
           \o Repeat(<<"LED_OFF", "LED_ON">>, 10)
           \o <<"SHUNT_OFF">>,
   age |-> 0, sleep |-> NoSleep, invert |-> FALSE]

\* case e_CellHVC
case_HVC(age) ==
  [ops |-> <<"LOOP_OPEN", "SHUNT_ON">>
           \o Repeat(<<"LED_OFF", "LED_ON">>, 10)
           \o <<"SHUNT_OFF">>,
   age |-> 0, sleep |-> NoSleep, invert |-> FALSE]

\* mutant: the start-up case sleeps like the quiet cases
case_Invalid_sleeps(age) ==
  [ops |-> <<"LOOP_CLOSE", "SHUNT_OFF">>
           \o Repeat(<<"LED_ON", "LED_OFF">>, 3),
   age |-> age, sleep |-> WD_TIMEOUT_1000ms, invert |-> FALSE]

\* case e_CellInvalid and default
case_Invalid(age) ==
  [ops |-> <<"LOOP_CLOSE", "SHUNT_OFF">>
           \o Repeat(<<"LED_ON", "LED_OFF">>, 3),
   age |-> age, sleep |-> NoSleep, invert |-> FALSE]

\* switch (cellstate)
switch_cellstate(cs, sh, age) ==
  CASE cs = e_CellLVC -> case_LVC(age)
    [] cs = e_CellNorm -> case_Norm(sh, age)
    [] cs = e_CellHVC -> case_HVC(age)
    [] OTHER -> case_Invalid(age)

\* one pass of loop() with raw = readVcc(calibration_factor_custom)
loop(raw) ==
  LET age1 == cutoff_age_step(last_cutoff_age)
      p1 == RunOps(PORTB, pre_sample_ops)
      buf == moving_average_store(avg_buffer, avg_index, raw)
      v == moving_average_mean(buf)
      sh == shunting_debounce(shunting, shunting_pending,
                              shunting_pending_age, shunting_new(shunting, v))
      cs == cellstate_debounce(cellstate, cellstate_pending,
                               cellstate_pending_age,
                               cellstate_new(cellstate, v))
      out == switch_cellstate(cs.cur, sh.cur, age1)
  IN /\ avg_buffer' = buf
     /\ avg_index' = moving_average_index(avg_index)
     /\ cellvoltage' = v
     /\ shunting' = sh.cur
     /\ shunting_pending' = sh.pend
     /\ shunting_pending_age' = sh.age
     /\ cellstate' = cs.cur
     /\ cellstate_pending' = cs.pend
     /\ cellstate_pending_age' = cs.age
     /\ last_cutoff_age' = out.age
     /\ port_sampled' = p1
     /\ PORTB' = RunOps(p1, out.ops)
     /\ shunt_pulsed' = (\E i \in 1..Len(out.ops) : out.ops[i] = "SHUNT_ON")
     /\ sleep_request' = out.sleep
     /\ invert_led' = out.invert

\* the same pass of loop() on the state st of a second run of the program:
\* st holds that run's globals and pins under the names of the variables
loop_of(st, raw) ==
  LET age1 == cutoff_age_step(st.last_cutoff_age)
      p1 == RunOps(st.PORTB, pre_sample_ops)
      buf == moving_average_store(st.avg_buffer, st.avg_index, raw)
      v == moving_average_mean(buf)
      sh == shunting_debounce(st.shunting, st.shunting_pending,
                              st.shunting_pending_age,
                              shunting_new(st.shunting, v))
      cs == cellstate_debounce(st.cellstate, st.cellstate_pending,
                               st.cellstate_pending_age,
                               cellstate_new(st.cellstate, v))
      out == switch_cellstate(cs.cur, sh.cur, age1)
  IN [avg_buffer |-> buf,
      avg_index |-> moving_average_index(st.avg_index),
      cellvoltage |-> v,
      shunting |-> sh.cur,
      shunting_pending |-> sh.pend,
      shunting_pending_age |-> sh.age,
      cellstate |-> cs.cur,
      cellstate_pending |-> cs.pend,
      cellstate_pending_age |-> cs.age,
      last_cutoff_age |-> out.age,
      PORTB |-> RunOps(p1, out.ops),
      shunt_pulsed |-> (\E i \in 1..Len(out.ops) : out.ops[i] = "SHUNT_ON"),
      passes |-> st.passes + 1,
      level |-> st.level]

\* ---------------------------------------------------------------- observers
InBand(v) == v > c_LVoltage_disengage /\ v < c_HVoltage_disengage
IsCutoff(cs) == cs \in {e_CellLVC, e_CellHVC}
Bump(n) == IF n < RunCap THEN n + 1 ELSE n

\* the readings of the low-voltage end-to-end scenario: 3200 on the first
\* three passes, 2850 on every later one
ScriptReading(t) == IF t <= 3 THEN 3200 ELSE 2850

\* obs records facts about the passes so far that the program itself does
\* not keep; every field is written by Observe only.
\*   hvRun      length of the current run of passes with filtered voltage
\*              >= c_HVoltage_engage
\*   bandRun    the same for the safe band (LV disengage, HV disengage)
\*   prevState  cellstate before the last pass
\*   spike      length of the current hvRun if cellstate was e_CellNorm
\*              when it began, else 0
\*   afterSpike number of in-band passes since a spike shorter than
\*              c_StateSettleTime ended (0: not in that situation)
\*   shuntRun   length of the current run of passes with filtered voltage
\*              in (shunt engage, HV disengage) that began with cellstate
\*              e_CellNorm and shunting FALSE
\*   exitRun    length of the current run of passes with filtered voltage
\*              in (LV engage, HV disengage) that began in e_CellHVC
\*   onScript   every reading so far was ScriptReading(pass number)
\*   firstLow   number of the first pass with filtered voltage
\*              <= c_LVoltage_engage, 0 while there was none
\*   normSince  number of passes since the last pass that ended in a cutoff
\*              state (saturating at c_RecentCutOffDuration + 1), -1 while
\*              there was none
\*   proposal   the cell state the classifier proposed on the last pass
\*   recent     the last c_MovingAverageWindow readings, oldest first,
\*              preceded by the start-up value while fewer were taken
\*   sameRun    length of the current run of identical readings
\*   lvExitRun  length of the current run of passes with filtered voltage
\*              above c_LVoltage_disengage that began in e_CellLVC
\*   heldCh     number of passes that changed cellstate in the current
\*              run of passes with one and the same filtered voltage
\*   heldShCh   number of passes of that run that changed shunting
ObsInit ==
  [hvRun |-> 0, bandRun |-> 0, prevState |-> e_CellInvalid, spike |-> 0,
   afterSpike |-> 0, shuntRun |-> 0, exitRun |-> 0, onScript |-> TRUE,
   firstLow |-> 0, normSince |-> -1, proposal |-> e_CellNorm,
   recent |-> [j \in 1..c_MovingAverageWindow |-> NominalVoltage],
   sameRun |-> 0, lvExitRun |-> 0, heldCh |-> 0, heldShCh |-> 0]

Observe(raw) ==
  LET v == cellvoltage'
      hv == v >= c_HVoltage_engage
      sb == v > c_ShuntVoltage_engage /\ v < c_HVoltage_disengage
      ex == v > c_LVoltage_engage /\ v < c_HVoltage_disengage
      held == tick > 0 /\ v = cellvoltage
      ch == IF cellstate' # cellstate THEN 1 ELSE 0
      shch == IF shunting' # shunting THEN 1 ELSE 0
  IN obs' =
      [hvRun |-> IF hv THEN Bump(obs.hvRun) ELSE 0,
       bandRun |-> IF InBand(v) THEN Bump(obs.bandRun) ELSE 0,
       prevState |-> cellstate,
       spike |-> IF ~hv THEN 0
                 ELSE IF obs.hvRun = 0
                      THEN (IF cellstate = e_CellNorm THEN 1 ELSE 0)
                      ELSE IF obs.spike > 0 THEN Bump(obs.spike) ELSE 0,
       afterSpike |-> IF ~InBand(v) THEN 0
                      ELSE IF obs.spike \in 1..(c_StateSettleTime - 1)
                           THEN 1
                           ELSE IF obs.afterSpike > 0
                                THEN Bump(obs.afterSpike) ELSE 0,
       shuntRun |-> IF ~sb THEN 0
                    ELSE IF obs.shuntRun > 0 THEN Bump(obs.shuntRun)
                         ELSE IF cellstate = e_CellNorm /\ ~shunting
                              THEN 1 ELSE 0,
       exitRun |-> IF ~ex THEN 0
                   ELSE IF obs.exitRun > 0 THEN Bump(obs.exitRun)
                        ELSE IF cellstate = e_CellHVC THEN 1 ELSE 0,
       onScript |-> obs.onScript /\ raw = ScriptReading(tick + 1),
       firstLow |-> IF obs.firstLow = 0 /\ v <= c_LVoltage_engage
                    THEN tick + 1 ELSE obs.firstLow,
       normSince |-> IF IsCutoff(cellstate') THEN 0
                     ELSE IF obs.normSince < 0 THEN -1
                          ELSE IF obs.normSince <= c_RecentCutOffDuration
                               THEN obs.normSince + 1
                               ELSE obs.normSince,
       proposal |-> cellstate_new(cellstate, v),
       recent |-> Tail(obs.recent) \o <<raw>>,
       sameRun |-> IF obs.sameRun > 0
                      /\ raw = obs.recent[c_MovingAverageWindow]
                   THEN Bump(obs.sameRun) ELSE 1,
       lvExitRun |-> IF v <= c_LVoltage_disengage THEN 0
                     ELSE IF obs.lvExitRun > 0 THEN Bump(obs.lvExitRun)
                          ELSE IF cellstate = e_CellLVC THEN 1 ELSE 0,
       heldCh |-> IF held THEN obs.heldCh + ch ELSE ch,
       heldShCh |-> IF held THEN obs.heldShCh + shch ELSE shch]

\* ---------------------------------------------------------------- specification
\* globals' initialisers and setup()
Init ==
  /\ avg_buffer = [i \in 0..(c_MovingAverageWindow - 1) |-> NominalVoltage]
  /\ avg_index = 0
  /\ cellvoltage = NominalVoltage
  /\ cellstate = e_CellInvalid
  /\ cellstate_pending = e_CellInvalid
  /\ cellstate_pending_age = 0
  /\ shunting = FALSE
  /\ shunting_pending = FALSE
  /\ shunting_pending_age = 0
  /\ last_cutoff_age = 0
  /\ PORTB = [led |-> FALSE, loop |-> FALSE, shunt |-> FALSE]
  /\ port_sampled = [led |-> FALSE, loop |-> FALSE, shunt |-> FALSE]
  /\ shunt_pulsed = FALSE
  /\ sleep_request = NoSleep
  /\ invert_led = FALSE
  /\ tick = 0
  /\ obs = ObsInit
  /\ twin = [avg_buffer |->
               [i \in 0..(c_MovingAverageWindow - 1) |-> NominalVoltage],
             avg_index |-> 0, cellvoltage |-> NominalVoltage,
             cellstate |-> e_CellInvalid,
             cellstate_pending |-> e_CellInvalid,
             cellstate_pending_age |-> 0,
             shunting |-> FALSE, shunting_pending |-> FALSE,
             shunting_pending_age |-> 0, last_cutoff_age |-> 0,
             PORTB |-> [led |-> FALSE, loop |-> FALSE, shunt |-> FALSE],
             shunt_pulsed |-> FALSE, passes |-> 0, level |-> FALSE]

\* one pass of loop() fed the reading raw, while fewer than cap passes ran
Tick(raw, cap) ==
  /\ tick < cap
  /\ loop(raw)
  /\ tick' = tick + 1
  /\ Observe(raw)
  /\ twin' = twin

\* calibrated readings (mV) fed to the passes.  Filtered through the five
\* slots that start at 3200 they reach every branch of the classifier:
\* 2850 pulls the mean to the low cutoff, 3525 holds it between shunt
\* engage and HV disengage, 3700 pushes it over HV engage.
Readings == {2850, 3525, 3700}

Next == \E raw \in Readings : Tick(raw, MaxTicks)

Spec == Init /\ [][Next]_vars

\* the low-voltage scenario: nominal and deeply discharged readings only
ReadingsLV == {2850, 3200}

NextLV == \E raw \in ReadingsLV : Tick(raw, MaxTicksLV)

SpecLV == Init /\ [][NextLV]_vars

\* the high-voltage exit scenario: readings that take the mean over HV
\* engage, hold it at exactly HV disengage, and bring it back below
ReadingsHV == {3000, 3550, 3700}

NextHV == \E raw \in ReadingsHV : Tick(raw, MaxTicksHV)

SpecHV == Init /\ [][NextHV]_vars

\* the recovery scenario: any of the low-voltage readings during the first
\* FreeTicks passes, the nominal reading on every later pass
ReadingsRecovery ==
  IF tick < FreeTicks THEN {2850, 3200, 3700} ELSE {NominalVoltage}

NextRecovery == \E raw \in ReadingsRecovery : Tick(raw, MaxTicksRecovery)

SpecRecovery == Init /\ [][NextRecovery]_vars

\* the filter scenario: readings whose sums over the window are not
\* multiples of the window length, so that the division truncates
ReadingsFilter == {2851, 3203, 3699}

NextFilter == \E raw \in ReadingsFilter : Tick(raw, MaxTicksFilter)

SpecFilter == Init /\ [][NextFilter]_vars

\* the low-voltage exit scenario: deeply discharged readings for the first
\* LowTicks passes, which commit e_CellLVC, then readings that hold the
\* mean at exactly LV disengage or take it through the band and over HV
\* engage
ReadingsLVExit ==
  IF tick < LowTicks THEN {2850} ELSE {2850, 2950, 3750}

NextLVExit == \E raw \in ReadingsLVExit : Tick(raw, MaxTicksLVExit)

SpecLVExit == Init /\ [][NextLVExit]_vars

\* two runs of the program side by side.  The second run is powered up
\* first and reads the nominal voltage on every pass (TwinLead); when it
\* is LeadTicks passes old the first run is powered up and reads the
\* nominal voltage for WarmTicks passes (Warm), which brings it to the
\* state of the second run in everything but last_cutoff_age; from then
\* on both runs read the same readings (PairTick).  LeadTicks are the
\* ages around c_RecentCutOffDuration at which the second run's cursor
\* is where the first run's will be after WarmTicks passes.
LeadTicks ==
  {n \in (c_RecentCutOffDuration - 5)..MaxLead :
     n % c_MovingAverageWindow = WarmTicks % c_MovingAverageWindow}

TwinLead ==
  /\ tick = 0
  /\ twin.passes < MaxLead
  /\ twin' = loop_of(twin, NominalVoltage)
  /\ UNCHANGED <<avg_buffer, avg_index, cellvoltage, cellstate,
                 cellstate_pending, cellstate_pending_age, shunting,
                 shunting_pending, shunting_pending_age, last_cutoff_age,
                 PORTB, port_sampled, shunt_pulsed, sleep_request,
                 invert_led, tick, obs>>

Warm ==
  /\ tick < WarmTicks
  /\ twin.passes \in LeadTicks
  /\ loop(NominalVoltage)
  /\ tick' = tick + 1
  /\ Observe(NominalVoltage)
  /\ twin' = [twin EXCEPT !.level = (tick + 1 = WarmTicks)]

PairTick(raw) ==
  /\ twin.level
  /\ tick < MaxTicksPair
  /\ loop(raw)
  /\ tick' = tick + 1
  /\ Observe(raw)
  /\ twin' = loop_of(twin, raw)

NextPair ==
  \/ TwinLead
  \/ Warm
  \/ \E raw \in Readings : PairTick(raw)

SpecPair == Init /\ [][NextPair]_vars

C4_SpikeRejected ==
  /\ obs.spike \in 1..(c_StateSettleTime - 1) => cellstate = e_CellNorm
  /\ obs.afterSpike >= 1 => cellstate = e_CellNorm
  /\ obs.afterSpike = 1 =>
       cellstate_pending = e_CellNorm /\ cellstate_pending_age = 0

\* the first in-band pass after a short spike
C4_Witness ==
  /\ obs.afterSpike = 1
  /\ obs.prevState = e_CellNorm
  /\ cellstate = e_CellNorm
  /\ cellstate_pending = e_CellNorm
  /\ cellstate_pending_age = 0

\* C5: a pass that starts in e_CellHVC and filters a voltage at or above
\* HV disengage (3550 included) proposes e_CellHVC and stays in e_CellHVC;
\* a run of c_StateSettleTime + 3 passes strictly between LV engage and HV
\* disengage that began in e_CellHVC ends in e_CellNorm.
C5_HVHysteresis ==
  /\ (obs.prevState = e_CellHVC /\ cellvoltage >= c_HVoltage_disengage) =>
       (cellstate_pending = e_CellHVC /\ cellstate = e_CellHVC)
  /\ obs.exitRun >= c_StateSettleTime + 3 => cellstate = e_CellNorm

\* a pass in e_CellHVC with the filtered voltage exactly at HV disengage
C5_Witness ==
  /\ obs.prevState = e_CellHVC
  /\ cellvoltage = c_HVoltage_disengage
  /\ cellstate_pending = e_CellHVC
  /\ cellstate = e_CellHVC

\* C6: after every pass the loop pin is open exactly when the committed
\* cell state is e_CellLVC or e_CellHVC.
C6_LoopOutput ==
  tick > 0 => (~PORTB.loop <=> IsCutoff(cellstate))

\* the pass that commits e_CellHVC over e_CellNorm opens the loop
C6_Witness ==
  /\ obs.prevState = e_CellNorm
  /\ cellstate = e_CellHVC
  /\ ~PORTB.loop

\* C7: after every pass the shunt pin is off; the shunt and LED pins are
\* off when the voltage is sampled; SHUNT_ON runs in a pass only if the
\* committed state is e_CellHVC, or e_CellNorm with shunting TRUE.
C7_ShuntBounded ==
  /\ ~PORTB.shunt
  /\ ~port_sampled.shunt
  /\ ~port_sampled.led
  /\ shunt_pulsed =>
       \/ cellstate = e_CellHVC
       \/ cellstate = e_CellNorm /\ shunting

\* a pass in e_CellNorm that pulsed the shunt and released it
C7_Witness ==
  /\ shunt_pulsed
  /\ cellstate = e_CellNorm
  /\ shunting
  /\ ~PORTB.shunt

\* C8: on a pass that changes the committed cell state to e_CellHVC the
\* committed shunting flag is TRUE after the classification.
C8_ShuntBeforeHVC ==
  (obs.prevState # e_CellHVC /\ cellstate = e_CellHVC) => shunting

\* a pass that commits e_CellHVC
C8_Witness ==
  /\ obs.prevState # e_CellHVC
  /\ cellstate = e_CellHVC
  /\ shunting

\* C9: a run of passes with the filtered voltage strictly between shunt
\* engage and HV disengage that began in e_CellNorm with shunting FALSE
\* keeps the committed state e_CellNorm on every pass and has shunting
\* TRUE from its (c_StateSettleTime + 3)-th pass.
C9_ShuntIndependent ==
  /\ obs.shuntRun >= 1 => cellstate = e_CellNorm
  /\ obs.shuntRun >= c_StateSettleTime + 3 => shunting

\* the sixth pass of such a run
C9_Witness ==
  /\ obs.shuntRun = c_StateSettleTime + 3
  /\ cellstate = e_CellNorm
  /\ shunting

\* C10: after a pass that ends in a cutoff state last_cutoff_age is 0;
\* on the n-th pass after the last such pass, all of them in e_CellNorm,
\* last_cutoff_age is n while n < c_RecentCutOffDuration and is
\* c_NoCutoffEvent from n = c_RecentCutOffDuration on.
C10_Recency ==
  /\ (tick > 0 /\ IsCutoff(cellstate)) => last_cutoff_age = 0
  /\ obs.normSince >= 1 =>
       /\ cellstate = e_CellNorm
       /\ obs.normSince < c_RecentCutOffDuration =>
            last_cutoff_age = obs.normSince
       /\ obs.normSince >= c_RecentCutOffDuration =>
            last_cutoff_age = c_NoCutoffEvent

\* the c_RecentCutOffDuration-th e_CellNorm pass after a cutoff
C10_Witness ==
  /\ obs.normSince = c_RecentCutOffDuration
  /\ cellstate = e_CellNorm
  /\ last_cutoff_age = c_NoCutoffEvent

\* C11: e_CellInvalid is a start-up state only: on no pass does the
\* classifier propose e_CellInvalid, and a pass that began with a committed
\* state other than e_CellInvalid does not end in e_CellInvalid.
C11_InvalidOnlyAtStart ==
  /\ obs.proposal # e_CellInvalid
  /\ obs.prevState # e_CellInvalid => cellstate # e_CellInvalid

\* a pass that began in e_CellInvalid with the filtered voltage exactly at
\* HV engage, where no rule for e_CellInvalid but the HV one applies
C11_Witness ==
  /\ tick > 0
  /\ obs.prevState = e_CellInvalid
  /\ cellvoltage = c_HVoltage_engage
  /\ obs.proposal = e_CellHVC

\* C12: when the last c_MovingAverageWindow (= 5) or more readings were
\* all the same value r, whatever the window and the cursor were before,
\* the filtered voltage is exactly r.
C12_ConstantInput ==
  obs.sameRun >= c_MovingAverageWindow =>
    cellvoltage = obs.recent[c_MovingAverageWindow]

\* the fifth identical reading, pushed from a cursor that is not at slot 0
\* into a window that held other readings
C12_Witness ==
  /\ obs.sameRun = c_MovingAverageWindow
  /\ tick > c_MovingAverageWindow
  /\ avg_index # 0
  /\ cellvoltage = obs.recent[c_MovingAverageWindow]
  /\ cellvoltage # NominalVoltage

RECURSIVE SumRecent(_)
SumRecent(n) == IF n = 0 THEN 0 ELSE obs.recent[n] + SumRecent(n - 1)

\* C17: after k readings the filtered voltage is the truncated mean of the
\* last min(k, 5) readings and 5 - min(k, 5) copies of the start-up value
\* 3200; the slot under the cursor holds the oldest of these values and the
\* following slots the later ones in order, so that a push overwrites
\* exactly the oldest; the cursor is always in 0..4.
C17_FilterWindow ==
  /\ avg_index \in 0..(c_MovingAverageWindow - 1)
  /\ cellvoltage = SumRecent(c_MovingAverageWindow) \div c_MovingAverageWindow
  /\ \A j \in 1..c_MovingAverageWindow :
       avg_buffer[(avg_index + j - 1) % c_MovingAverageWindow] = obs.recent[j]

\* a cursor that has wrapped and a window of readings whose sum is not a
\* multiple of 5, so that the mean is truncated
C17_Witness ==
  /\ tick > c_MovingAverageWindow
  /\ avg_index = 1
  /\ SumRecent(c_MovingAverageWindow) % c_MovingAverageWindow # 0
  /\ cellvoltage * c_MovingAverageWindow < SumRecent(c_MovingAverageWindow)

\* C13: a pass requests deep sleep exactly when the committed state it
\* ends with is e_CellLVC, or e_CellNorm with shunting FALSE, and the
\* request is for the 1000 ms watchdog timeout; a pass that ends in
\* e_CellHVC, in e_CellNorm with shunting TRUE or in e_CellInvalid requests
\* no sleep.
C13_SleepOnlyWhenQuiet ==
  tick > 0 =>
    IF cellstate = e_CellLVC \/ (cellstate = e_CellNorm /\ ~shunting)
    THEN sleep_request = WD_TIMEOUT_1000ms
    ELSE sleep_request = NoSleep

\* a pass that leaves e_CellHVC for e_CellNorm with shunting already
\* FALSE and goes to sleep
C13_Witness ==
  /\ obs.prevState = e_CellHVC
  /\ cellstate = e_CellNorm
  /\ ~shunting
  /\ sleep_request = WD_TIMEOUT_1000ms

\* C15: on every pass, for the cell state and for the shunting flag alike:
\* if the proposal differs from the pending value, the pending value
\* becomes the proposal, its age becomes 0 and the committed value stays;
\* the committed value changes only if the proposal equals the pending
\* value and the pending age before the pass is greater than
\* c_StateSettleTime, and then the committed value becomes the proposal.
C15_DebounceCommit ==
  [][LET cnew == cellstate_new(cellstate, cellvoltage')
         snew == shunting_new(shunting, cellvoltage')
     IN /\ cnew # cellstate_pending =>
             /\ cellstate_pending' = cnew
             /\ cellstate_pending_age' = 0
             /\ cellstate' = cellstate
        /\ cellstate' # cellstate =>
             /\ cnew = cellstate_pending
             /\ cellstate_pending_age > c_StateSettleTime
             /\ cellstate' = cnew
        /\ snew # shunting_pending =>
             /\ shunting_pending' = snew
             /\ shunting_pending_age' = 0
             /\ shunting' = shunting
        /\ shunting' # shunting =>
             /\ snew = shunting_pending
             /\ shunting_pending_age > c_StateSettleTime
             /\ shunting' = snew]_vars

\* a pass that commits a new cell state while a changed shunting proposal
\* has just replaced the pending shunting value
C15_Witness ==
  /\ obs.prevState # e_CellInvalid
  /\ cellstate # obs.prevState
  /\ cellstate_pending = cellstate
  /\ cellstate_pending_age = c_StateSettleTime + 1
  /\ shunting_pending # shunting
  /\ shunting_pending_age = 0

\* C16: cellstate_pending_age and shunting_pending_age are always in
\* 0..c_StateSettleTime + 1, far from the 16-bit limit; a pass that commits
\* leaves the age at c_StateSettleTime + 1, and the age stays there on
\* every later pass whose proposal equals the pending value.
C16_AgeBounded ==
  /\ [](/\ cellstate_pending_age \in 0..(c_StateSettleTime + 1)
        /\ shunting_pending_age \in 0..(c_StateSettleTime + 1))
  /\ [][/\ cellstate' # cellstate =>
             cellstate_pending_age' = c_StateSettleTime + 1
        /\ shunting' # shunting =>
             shunting_pending_age' = c_StateSettleTime + 1
        /\ (/\ cellstate_pending_age = c_StateSettleTime + 1
            /\ cellstate_new(cellstate, cellvoltage') = cellstate_pending)
             => cellstate_pending_age' = c_StateSettleTime + 1
        /\ (/\ shunting_pending_age = c_StateSettleTime + 1
            /\ shunting_new(shunting, cellvoltage') = shunting_pending)
             => shunting_pending_age' = c_StateSettleTime + 1]_vars

\* both ages at their ceiling, the cell state committed at least
\* c_StateSettleTime + 2 passes ago
C16_Witness ==
  /\ cellstate_pending_age = c_StateSettleTime + 1
  /\ shunting_pending_age = c_StateSettleTime + 1
  /\ cellstate = e_CellHVC
  /\ obs.hvRun = RunCap

\* C18: on a pass that begins in e_CellLVC the proposal is e_CellNorm
\* exactly when the filtered voltage is above c_LVoltage_disengage and
\* below c_HVoltage_engage, and is e_CellLVC when the voltage is in
\* (c_LVoltage_engage, c_LVoltage_disengage]; a pass that takes the
\* committed state from e_CellLVC to e_CellNorm ends a run of at least
\* c_StateSettleTime + 3 passes whose filtered voltage was above
\* c_LVoltage_disengage on every one.
C18_LVHysteresis ==
  /\ (tick > 0 /\ obs.prevState = e_CellLVC) =>
       /\ obs.proposal = e_CellNorm <=>
            (cellvoltage > c_LVoltage_disengage
             /\ cellvoltage < c_HVoltage_engage)
       /\ (cellvoltage > c_LVoltage_engage
           /\ cellvoltage <= c_LVoltage_disengage) =>
            obs.proposal = e_CellLVC
  /\ (obs.prevState = e_CellLVC /\ cellstate = e_CellNorm) =>
       obs.lvExitRun >= c_StateSettleTime + 3

\* a pass in e_CellLVC with the filtered voltage exactly at LV disengage
C18_Witness ==
  /\ obs.prevState = e_CellLVC
  /\ cellvoltage = c_LVoltage_disengage
  /\ obs.proposal = e_CellLVC
  /\ cellstate = e_CellLVC

\* voltages at and next to every threshold of the classifier
ProbeVoltages ==
  UNION {{t - 1, t, t + 1} :
           t \in {c_LVoltage_engage, c_LVoltage_disengage,
                  c_ShuntVoltage_disengage, c_ShuntVoltage_engage,
                  c_HVoltage_disengage, c_HVoltage_engage}}

\* C19: classifying twice at the same voltage gives what classifying once
\* gives, for the cell state and for the shunting flag, from every state
\* and at every threshold voltage and at the current filtered voltage; and
\* within a run of passes with one and the same filtered voltage at most
\* one pass changes cellstate and at most one changes shunting.
C19_Idempotent ==
  /\ \A v \in ProbeVoltages \cup {cellvoltage} :
       /\ \A cs \in {e_CellInvalid, e_CellNorm, e_CellLVC, e_CellHVC} :
            cellstate_new(cellstate_new(cs, v), v) = cellstate_new(cs, v)
       /\ \A sh \in BOOLEAN :
            shunting_new(shunting_new(sh, v), v) = shunting_new(sh, v)
  /\ obs.heldCh <= 1
  /\ obs.heldShCh <= 1

\* a run of passes at one filtered voltage in which cellstate and shunting
\* each changed once and which went on after that: the window has held
\* five copies of one reading for four passes
C19_Witness ==
  /\ obs.heldCh = 1
  /\ obs.heldShCh = 1
  /\ obs.sameRun >= c_MovingAverageWindow + 3
  /\ cellstate = obs.prevState

\* C20 as stated: a pass drives the inverted indicator pattern (e_CellNorm,
\* shunting FALSE, invert_led set) only if some pass within the preceding
\* c_RecentCutOffDuration passes ended in e_CellLVC or e_CellHVC; a run
\* from power-up in which no cutoff was ever committed never drives it.
C20_Original ==
  (tick > 0 /\ cellstate = e_CellNorm /\ ~shunting /\ invert_led) =>
    obs.normSince \in 1..c_RecentCutOffDuration

\* C14: last_cutoff_age has no effect on classification or protection
\* outputs.  Once two runs are in states that differ only in
\* last_cutoff_age (and in the indicator pin it drives) and read the same
\* readings from then on, they agree after every pass on the filter
\* window and cursor, the filtered voltage, the committed and pending cell
\* state and shunting flag with their ages, the loop pin, the shunt pin
\* and whether the shunt was pulsed.
C14_RecencyNoEffect ==
  twin.level =>
    /\ twin.avg_buffer = avg_buffer
    /\ twin.avg_index = avg_index
    /\ twin.cellvoltage = cellvoltage
    /\ twin.cellstate = cellstate
    /\ twin.cellstate_pending = cellstate_pending
    /\ twin.cellstate_pending_age = cellstate_pending_age
    /\ twin.shunting = shunting
    /\ twin.shunting_pending = shunting_pending
    /\ twin.shunting_pending_age = shunting_pending_age
    /\ twin.PORTB.loop = PORTB.loop
    /\ twin.PORTB.shunt = PORTB.shunt
    /\ twin.shunt_pulsed = shunt_pulsed

\* both runs in e_CellNorm after readings that made the shunting flag
\* change, with different last_cutoff_age and different indicator pins
C14_Witness ==
  /\ twin.level
  /\ tick > WarmTicks + c_StateSettleTime
  /\ cellstate = e_CellNorm
  /\ twin.last_cutoff_age # last_cutoff_age
  /\ twin.PORTB.led # PORTB.led
  /\ cellvoltage # NominalVoltage

====
